---- MODULE Spec2Model ----
(***************************************************************************)
(* Conference participant tracker (src/app.py): a Streamlit script that    *)
(* every browser session re-runs from top to bottom.  Each run loads the   *)
(* participants table through a TTL cache shared by all sessions, looks a  *)
(* participant up, validates the requested activity and, when the button   *)
(* was clicked, loads again, marks the activity and writes the whole table *)
(* back to the remote file with a SHA-guarded update and a bounded retry.  *)
(***************************************************************************)
EXTENDS Integers, Sequences, FiniteSets, TLC

(* ------------------------------ bounds --------------------------------- *)

\* Seconds datetime.now() can show during a behaviour: 1..MaxNow.
MaxNow == 2

\* Script runs (typed IDs and button clicks) started during a behaviour.
MaxRuns == 4

\* Browser sessions operating the form concurrently.
Clients == {"c1", "c2"}

(* ------------------------- program constants --------------------------- *)

\* retries = 3 in save_data.
retries == 3

\* The three check-in tabs; each names the Status column it writes.
Activities == {"Bus Check-in", "Food Collection", "Override"}

\* The ID Code column of the provisioned table, and what staff may type.
Ids == {"A100", "B200"}
Inputs == Ids \cup {"Z999"}

\* Calendar days, as datetime.today().strftime("%Y-%m-%d") prints them.
Dates == {"d1", "d2"}

(* ------------------------------ CSV cells ------------------------------ *)
\* A cell is a string, modelled as a sequence of symbols: a symbol is a
\* whole date, a separator character or a whole timestamp.

\* pandas' missing value, what read_csv yields for an empty field.
NaN == <<"NaN">>

\* pd.read_csv: an empty field is read as NaN, any other field as its text.
ReadCell(cell) == IF cell = <<>> THEN NaN ELSE cell

\* DataFrame.to_csv: NaN is written as an empty field.
WriteCell(v) == IF v = NaN THEN <<>> ELSE v

\* Python's str(): str(float('nan')) is the text "nan".
Str(v) == IF v = NaN THEN <<"nan">> ELSE v

\* datetime.now().strftime("%Y-%m-%d %H:%M:%S") at clock reading t.
Strftime(t) == <<ToString(t)>>

\* pd.read_csv(StringIO(...)) on the whole file.
read_csv(csv) ==
    [i \in DOMAIN csv |->
        [day |-> ReadCell(csv[i].day),
         st  |-> csv[i].st,
         ts  |-> [a \in Activities |-> ReadCell(csv[i].ts[a])]]]

\* df.to_csv(index=False).
to_csv(df) ==
    [i \in DOMAIN df |->
        [day |-> WriteCell(df[i].day),
         st  |-> df[i].st,
         ts  |-> [a \in Activities |-> WriteCell(df[i].ts[a])]]]

(* --------------------------- string helpers ---------------------------- *)

RECURSIVE SplitComma(_)
\* str.split(","): the pieces between commas, empty pieces included.
SplitComma(s) ==
    IF \A k \in 1..Len(s) : s[k] # ","
    THEN <<s>>
    ELSE LET k == CHOOSE j \in 1..Len(s) :
                      s[j] = "," /\ \A m \in 1..(j - 1) : s[m] # ","
         IN  <<SubSeq(s, 1, k - 1)>> \o SplitComma(SubSeq(s, k + 1, Len(s)))

RECURSIVE Strip(_)
\* str.strip(): leading and trailing blanks removed.
Strip(s) ==
    IF s = <<>> THEN s
    ELSE IF Head(s) = " " THEN Strip(Tail(s))
    ELSE IF s[Len(s)] = " " THEN Strip(SubSeq(s, 1, Len(s) - 1))
    ELSE s

\* [d.strip() for d in assigned_days if d.strip()], as a set: the code only
\* tests the list for emptiness and membership.
AssignedDays(dayValue) ==
    LET parts == SplitComma(Str(dayValue))
    IN  {Strip(parts[k]) : k \in {j \in 1..Len(parts) : Strip(parts[j]) # <<>>}}

(* ----------------------------- validation ------------------------------ *)

\* validate_action with the Assigned Day test left out.
validate_action_no_day_check(row, action_col, day) ==
    IF row.st[action_col] = "Yes" THEN "already" ELSE "ok"

\* validate_action with the already-done test placed first.
validate_action_done_first(row, action_col, day) ==
    IF row.st[action_col] = "Yes" THEN "already"
    ELSE IF AssignedDays(row.day) # {} /\ <<day>> \notin AssignedDays(row.day)
            /\ action_col # "Override"
    THEN "invalid_day"
    ELSE "ok"

\* validate_action without the exemption of Override from the day test.
validate_action_gates_override(row, action_col, day) ==
    IF AssignedDays(row.day) # {} /\ <<day>> \notin AssignedDays(row.day)
    THEN "invalid_day"
    ELSE IF row.st[action_col] = "Yes" THEN "already"
    ELSE "ok"

\* validate_action without the test that assigned_days is non-empty.
validate_action_empty_blocks(row, action_col, day) ==
    IF <<day>> \notin AssignedDays(row.day) /\ action_col # "Override"
    THEN "invalid_day"
    ELSE IF row.st[action_col] = "Yes" THEN "already"
    ELSE "ok"

\* validate_action(participant_row, action_col) with datetime.today() = day.
validate_action(row, action_col, day) ==
    LET assigned_days == AssignedDays(row.day)
        today_day     == <<day>>
        already_done  == row.st[action_col] = "Yes"
    IN  IF assigned_days # {} /\ today_day \notin assigned_days
           /\ action_col # "Override"
        THEN "invalid_day"
        ELSE IF already_done THEN "already"
        ELSE "ok"

\* get_participant with the comparison left out: every row is returned.
get_participant_all_rows(df, id) == DOMAIN df

\* get_participant(id_code): the rows whose ID Code equals the entered text.
get_participant(df, id) == {i \in DOMAIN df : i = id}

(* ------------------------------- state --------------------------------- *)

VARIABLES
    remote,       \* content of FILE_PATH in the GitHub repository (CSV)
    cache,        \* st.cache_data entry of load_data: <<>> or <<DataFrame>>
    today,        \* the calendar day datetime.today() shows
    now,          \* the second datetime.now() shows
    pc,           \* per session: where its script run stands
    ret,          \* per session: the line of the load_data() call in progress
    id_code,      \* per session: text of the ID input of the tab in use
    action_col,   \* per session: the tab in use
    clicked,      \* per session: this run was triggered by the tab's button
    button,       \* per session: the last run rendered the tab's button
    csv_data,     \* per session: save_data's csv_data
    sha,          \* per session: file_content.sha held by save_data
    attempt,      \* per session: save_data's loop variable
    outcome,      \* per session: what the run reported to the user
    yesAtStart,   \* per session: remote Status was Yes when the click came
    runs          \* script runs started so far

vars == <<remote, cache, today, now, pc, ret, id_code, action_col, clicked,
          button, csv_data, sha, attempt, outcome, yesAtStart, runs>>

\* Git blob SHA of a file content: equal exactly for equal contents.
BlobSha(content) == <<"sha", content>>

\* The table as provisioned: A100 is assigned to day d1, B200 to day d2;
\* nothing is recorded yet.
Provisioned ==
    [i \in Ids |->
        [day |-> IF i = "A100" THEN <<"d1">> ELSE <<"d2">>,
         st  |-> [a \in Activities |-> "No"],
         ts  |-> [a \in Activities |-> <<>>]]]

Init ==
    /\ remote = Provisioned
    /\ cache = <<>>
    /\ today = "d1"
    /\ now = 1
    /\ pc = [c \in Clients |-> "idle"]
    /\ ret = [c \in Clients |-> 41]
    /\ id_code = [c \in Clients |-> "A100"]
    /\ action_col = [c \in Clients |-> "Bus Check-in"]
    /\ clicked = [c \in Clients |-> FALSE]
    /\ button = [c \in Clients |-> FALSE]
    /\ csv_data = [c \in Clients |-> <<>>]
    /\ sha = [c \in Clients |-> <<>>]
    /\ attempt = [c \in Clients |-> 0]
    /\ outcome = [c \in Clients |-> "none"]
    /\ yesAtStart = [c \in Clients |-> FALSE]
    /\ runs = 0

(* ------------------------------ the clock ------------------------------ *)

\* The day changes.
Midnight ==
    /\ today = "d1"
    /\ today' = "d2"
    /\ UNCHANGED <<remote, cache, now, pc, ret, id_code, action_col, clicked,
                   button, csv_data, sha, attempt, outcome, yesAtStart, runs>>

\* @st.cache_data(ttl=5): the entry is dropped once it is five seconds old.
Expire ==
    /\ cache # <<>>
    /\ cache' = <<>>
    /\ UNCHANGED <<remote, today, now, pc, ret, id_code, action_col, clicked,
                   button, csv_data, sha, attempt, outcome, yesAtStart, runs>>

(* --------------------------- starting a run ---------------------------- *)

\* Staff type an ID into one tab's text input: the script reruns.
Rerun(c) ==
    /\ pc[c] = "idle"
    /\ \E id \in Inputs, act \in Activities :
          /\ id_code' = [id_code EXCEPT ![c] = id]
          /\ action_col' = [action_col EXCEPT ![c] = act]
    /\ clicked' = [clicked EXCEPT ![c] = FALSE]
    /\ button' = [button EXCEPT ![c] = FALSE]
    /\ outcome' = [outcome EXCEPT ![c] = "none"]
    /\ yesAtStart' = [yesAtStart EXCEPT ![c] = FALSE]
    /\ pc' = [pc EXCEPT ![c] = "load"]
    /\ ret' = [ret EXCEPT ![c] = 41]
    /\ runs < MaxRuns
    /\ runs' = runs + 1
    /\ UNCHANGED <<remote, cache, today, now, csv_data, sha, attempt>>

\* Texts staff may type into the ID input, as sequences of symbols: a
\* symbol is a blank or a whole word.
TypedTexts ==
    { <<"A100">>, <<"a100">>, <<" ", "A100", " ">>, <<"B200">>, <<"Z999">>,
      <<" ">> }

\* The text of a stripped input: its word, or the empty text.
Word(s) == IF s = <<>> THEN "" ELSE s[1]

\* Staff type a text into one tab's ID input: st.text_input(...).strip(),
\* and the script reruns.
RerunTyped(c) ==
    /\ pc[c] = "idle"
    /\ \E raw \in TypedTexts, act \in Activities :
          /\ id_code' = [id_code EXCEPT ![c] = Word(Strip(raw))]
          /\ action_col' = [action_col EXCEPT ![c] = act]
    /\ clicked' = [clicked EXCEPT ![c] = FALSE]
    /\ button' = [button EXCEPT ![c] = FALSE]
    /\ outcome' = [outcome EXCEPT ![c] = "none"]
    /\ yesAtStart' = [yesAtStart EXCEPT ![c] = FALSE]
    /\ pc' = [pc EXCEPT ![c] = "load"]
    /\ ret' = [ret EXCEPT ![c] = 41]
    /\ runs < MaxRuns
    /\ runs' = runs + 1
    /\ UNCHANGED <<remote, cache, today, now, csv_data, sha, attempt>>

\* Staff press the button the last run rendered: the script reruns with
\* st.button(...) returning True.
Click(c) ==
    /\ pc[c] = "idle"
    /\ button[c]
    /\ clicked' = [clicked EXCEPT ![c] = TRUE]
    /\ button' = [button EXCEPT ![c] = FALSE]
    /\ outcome' = [outcome EXCEPT ![c] = "none"]
    /\ yesAtStart' = [yesAtStart EXCEPT ![c] =
                         remote[id_code[c]].st[action_col[c]] = "Yes"]
    /\ pc' = [pc EXCEPT ![c] = "load"]
    /\ ret' = [ret EXCEPT ![c] = 41]
    /\ runs < MaxRuns
    /\ runs' = runs + 1
    /\ UNCHANGED <<remote, cache, today, now, id_code, action_col, csv_data, sha, attempt>>

(* --------------------------- the tab handler --------------------------- *)

\* The marking that keeps only the participant's row.
Mark_only_row(df, id, act, t) ==
    [i \in DOMAIN df \cap {id} |->
        [df[i] EXCEPT !.st[act] = "Yes", !.ts[act] = Strftime(t)]]

\* The marking that sets the Status column and leaves the Timestamp column.
Mark_status_only(df, id, act, t) ==
    [i \in DOMAIN df |->
        IF i = id THEN [df[i] EXCEPT !.st[act] = "Yes"] ELSE df[i]]

\* df.loc[df["ID Code"].astype(str) == id_code, col] = "Yes" and the same
\* for the tab's Timestamp column, at clock reading t.
Mark(df, id, act, t) ==
    [i \in DOMAIN df |->
        IF i = id
        THEN [df[i] EXCEPT !.st[act] = "Yes", !.ts[act] = Strftime(t)]
        ELSE df[i]]

\* Lines 41..109 of a run once df = load_data() has returned: the lookup,
\* the validation and the message or button that follows.
Tab(c, df) ==
    LET found       == get_participant(df, id_code[c])
        participant == df[CHOOSE i \in found : TRUE]
        status      == validate_action(participant, action_col[c], today)
    IN  IF id_code[c] = ""
        THEN /\ pc' = [pc EXCEPT ![c] = "load"]
             /\ ret' = [ret EXCEPT ![c] = 196]
             /\ UNCHANGED <<outcome, button>>
        ELSE IF found = {}
        THEN /\ outcome' = [outcome EXCEPT ![c] = "NotFound"]
             /\ pc' = [pc EXCEPT ![c] = "load"]
             /\ ret' = [ret EXCEPT ![c] = 196]
             /\ UNCHANGED button
        ELSE IF status # "ok"
        THEN /\ outcome' = [outcome EXCEPT ![c] = status]
             /\ pc' = [pc EXCEPT ![c] = "load"]
             /\ ret' = [ret EXCEPT ![c] = 196]
             /\ UNCHANGED button
        ELSE IF clicked[c]
        THEN /\ pc' = [pc EXCEPT ![c] = "load"]
             /\ ret' = [ret EXCEPT ![c] = 111]
             /\ UNCHANGED <<outcome, button>>
        ELSE /\ button' = [button EXCEPT ![c] = TRUE]
             /\ pc' = [pc EXCEPT ![c] = "load"]
             /\ ret' = [ret EXCEPT ![c] = 196]
             /\ UNCHANGED outcome

\* What follows a load_data() call that returned df, by call site:
\* line 41 (top of the script), line 111/146/179 (inside the button branch)
\* or line 196 (the dashboard, last statement of the run).
AfterLoad(c, df) ==
    IF ret[c] = 41
    THEN /\ Tab(c, df)
         /\ UNCHANGED <<csv_data, attempt, now, clicked, yesAtStart>>
    ELSE IF ret[c] = 111
    THEN /\ \E t \in now..MaxNow :
               /\ now' = t
               /\ csv_data' = [csv_data EXCEPT ![c] =
                      <<to_csv(Mark(df, id_code[c], action_col[c], t))>>]
         /\ attempt' = [attempt EXCEPT ![c] = 0]
         /\ pc' = [pc EXCEPT ![c] = "get_contents"]
         /\ UNCHANGED <<ret, outcome, button, clicked, yesAtStart>>
    ELSE /\ pc' = [pc EXCEPT ![c] = "idle"]
         /\ clicked' = [clicked EXCEPT ![c] = FALSE]
         /\ yesAtStart' = [yesAtStart EXCEPT ![c] = FALSE]
         /\ csv_data' = [csv_data EXCEPT ![c] = <<>>]
         /\ UNCHANGED <<ret, outcome, button, attempt, now>>

(* ------------------------------ load_data ------------------------------ *)

\* load_data(): the cached DataFrame is returned while the entry lives.
LoadHit(c) ==
    /\ pc[c] = "load"
    /\ cache # <<>>
    /\ AfterLoad(c, cache[1])
    /\ UNCHANGED <<remote, cache, today, id_code, action_col, sha,
                   runs>>

\* load_data() on a miss: repo.get_contents and read_csv; the result is
\* cached and returned (st.cache_data computes a missing entry in one piece).
LoadFetch(c) ==
    /\ pc[c] = "load"
    /\ cache = <<>>
    /\ cache' = <<read_csv(remote)>>
    /\ AfterLoad(c, read_csv(remote))
    /\ UNCHANGED <<remote, today, id_code, action_col, sha, runs>>

(* ------------------------------ save_data ------------------------------ *)

\* The except branch with the last attempt tested as attempt < retries.
Except_one_more(c) ==
    IF attempt[c] < retries
    THEN /\ attempt' = [attempt EXCEPT ![c] = attempt[c] + 1]
         /\ pc' = [pc EXCEPT ![c] = "get_contents"]
         /\ UNCHANGED <<outcome, ret, csv_data>>
    ELSE /\ outcome' = [outcome EXCEPT ![c] = "PersistFailed"]
         /\ pc' = [pc EXCEPT ![c] = "load"]
         /\ ret' = [ret EXCEPT ![c] = 196]
         /\ UNCHANGED <<attempt, csv_data>>

\* except Exception: sleep and try again, or give up after the last attempt.
Except(c) ==
    IF attempt[c] < retries - 1
    THEN /\ attempt' = [attempt EXCEPT ![c] = attempt[c] + 1]
         /\ pc' = [pc EXCEPT ![c] = "get_contents"]
         /\ UNCHANGED <<outcome, ret, csv_data>>
    ELSE /\ outcome' = [outcome EXCEPT ![c] = "PersistFailed"]
         /\ pc' = [pc EXCEPT ![c] = "load"]
         /\ ret' = [ret EXCEPT ![c] = 196]
         /\ UNCHANGED <<attempt, csv_data>>

\* get_contents that fetches the SHA in the first attempt only and keeps
\* what the session holds in the later ones.
GetContents_once(c) ==
    /\ pc[c] = "get_contents"
    /\ sha' = IF attempt[c] = 0
              THEN [sha EXCEPT ![c] = <<BlobSha(remote)>>]
              ELSE sha
    /\ pc' = [pc EXCEPT ![c] = "update_file"]
    /\ UNCHANGED <<remote, cache, today, now, ret, id_code, action_col, clicked,
                   button, csv_data, attempt, outcome, yesAtStart, runs>>

\* file_content = repo.get_contents(FILE_PATH): the current SHA.
GetContents(c) ==
    /\ pc[c] = "get_contents"
    /\ sha' = [sha EXCEPT ![c] = <<BlobSha(remote)>>]
    /\ pc' = [pc EXCEPT ![c] = "update_file"]
    /\ UNCHANGED <<remote, cache, today, now, ret, id_code, action_col, clicked,
                   button, csv_data, attempt, outcome, yesAtStart, runs>>

\* repo.get_contents raises (the remote call fails).
GetContentsFails(c) ==
    /\ pc[c] = "get_contents"
    /\ Except(c)
    /\ sha' = [sha EXCEPT ![c] = <<>>]
    /\ UNCHANGED <<remote, cache, today, now, id_code, action_col, clicked,
                   button, yesAtStart, runs>>

\* repo.update_file(..., csv_data, file_content.sha): accepted when the SHA
\* is the file's current one; return True.
UpdateFile(c) ==
    /\ pc[c] = "update_file"
    /\ sha[c] = <<BlobSha(remote)>>
    /\ remote' = csv_data[c][1]
    /\ sha' = [sha EXCEPT ![c] = <<>>]
    /\ pc' = [pc EXCEPT ![c] = "clear"]
    /\ UNCHANGED <<cache, today, now, ret, id_code, action_col, clicked, button,
                   csv_data, attempt, outcome, yesAtStart, runs>>

\* repo.update_file raises: the SHA is no longer current, or the call fails.
UpdateFileFails(c) ==
    /\ pc[c] = "update_file"
    /\ Except(c)
    /\ sha' = [sha EXCEPT ![c] = <<>>]
    /\ UNCHANGED <<remote, cache, today, now, id_code, action_col, clicked,
                   button, yesAtStart, runs>>

\* if save_data(...): load_data.clear() and the success message.
Clear(c) ==
    /\ pc[c] = "clear"
    /\ cache' = <<>>
    /\ outcome' = [outcome EXCEPT ![c] = "Recorded"]
    /\ pc' = [pc EXCEPT ![c] = "load"]
    /\ ret' = [ret EXCEPT ![c] = 196]
    /\ UNCHANGED <<remote, today, now, id_code, action_col, clicked, button,
                   csv_data, sha, attempt, yesAtStart, runs>>

(* --------------------------- specification ----------------------------- *)

Next ==
    \/ Expire
    \/ \E c \in Clients : Rerun(c)
    \/ \E c \in Clients : Click(c)
    \/ \E c \in Clients : LoadHit(c)
    \/ \E c \in Clients : LoadFetch(c)
    \/ \E c \in Clients : GetContents(c)
    \/ \E c \in Clients : GetContentsFails(c)
    \/ \E c \in Clients : UpdateFile(c)
    \/ \E c \in Clients : UpdateFileFails(c)
    \/ \E c \in Clients : Clear(c)

Spec == Init /\ [][Next]_vars

(* ----------------------- one session, any table ------------------------ *)

\* Texts an Assigned Day cell may hold: empty, a blank, one date, two dates
\* separated by a comma, by a comma and a blank, or by a blank, and a
\* padded date.
AssignedCells ==
    { <<>>, <<" ">>, <<"d1">>, <<"d2">>, <<"d1", ",", "d2">>,
      <<"d1", ",", " ", "d2">>, <<"d1", " ", "d2">>, <<" ", "d2", " ">> }

\* Tables the file may hold when a session opens: A100 with any Assigned
\* Day cell and any activities already recorded (at an earlier second 0).
StoredTables ==
    { [i \in Ids |->
         IF i = "A100"
         THEN [day |-> cell,
               st  |-> st,
               ts  |-> [a \in Activities |->
                           IF st[a] = "Yes" THEN Strftime(0) ELSE <<>>]]
         ELSE Provisioned[i]] :
      cell \in AssignedCells, st \in [Activities -> {"Yes", "No"}] }

InitSolo ==
    /\ remote \in StoredTables
    /\ today \in Dates
    /\ cache = <<>>
    /\ now = 1
    /\ pc = [c \in Clients |-> "idle"]
    /\ ret = [c \in Clients |-> 41]
    /\ id_code = [c \in Clients |-> "A100"]
    /\ action_col = [c \in Clients |-> "Bus Check-in"]
    /\ clicked = [c \in Clients |-> FALSE]
    /\ button = [c \in Clients |-> FALSE]
    /\ csv_data = [c \in Clients |-> <<>>]
    /\ sha = [c \in Clients |-> <<>>]
    /\ attempt = [c \in Clients |-> 0]
    /\ outcome = [c \in Clients |-> "none"]
    /\ yesAtStart = [c \in Clients |-> FALSE]
    /\ runs = 0

NextSolo ==
    \/ Midnight
    \/ Expire
    \/ Rerun("c1")
    \/ Click("c1")
    \/ LoadHit("c1")
    \/ LoadFetch("c1")
    \/ GetContents("c1")
    \/ GetContentsFails("c1")
    \/ UpdateFile("c1")
    \/ UpdateFileFails("c1")
    \/ Clear("c1")

\* One staff member at the form, over any stored table and across midnight.
SpecSolo == InitSolo /\ [][NextSolo]_vars

(* ---------------------- one session, typed texts ---------------------- *)

NextTyped ==
    \/ Expire
    \/ RerunTyped("c1")
    \/ Click("c1")
    \/ LoadHit("c1")
    \/ LoadFetch("c1")
    \/ GetContents("c1")
    \/ GetContentsFails("c1")
    \/ UpdateFile("c1")
    \/ UpdateFileFails("c1")
    \/ Clear("c1")

\* One staff member typing IDs with any case and padding.
SpecTyped == Init /\ [][NextTyped]_vars

(* ------------------------- vocabulary of claims ------------------------ *)

\* Outcomes by which a handler refuses the action.
Blocked == {"invalid_day", "already"}

\* The day-gated activities.
Gated == Activities \ {"Override"}

\* The dates an Assigned Day text lists, whatever separates them.
ListedDates(text) == {text[k] : k \in 1..Len(text)} \cap Dates

\* Session c's load_data() of line 41 returns, and its tab handler decides.
TabStep(c) == pc[c] = "load" /\ ret[c] = 41 /\ ret'[c] # 41

\* Session c's load_data() inside the button branch returns.
MutateStep(c) == pc[c] = "load" /\ ret[c] = 111 /\ pc'[c] = "get_contents"

\* Session c's dashboard load_data() returns, ending the run.
DashStep(c) == pc[c] = "load" /\ ret[c] = 196 /\ pc'[c] = "idle"

\* Session c's repo.update_file is accepted.
WriteStep(c) == pc[c] = "update_file" /\ pc'[c] = "clear"

\* An attempt of session c's save_data ends in the except branch.
FailStep(c) ==
    /\ pc[c] \in {"get_contents", "update_file"}
    /\ \/ attempt'[c] # attempt[c]
       \/ outcome'[c] = "PersistFailed"

\* Assigned Day texts that write a set of dates as a comma-separated list:
\* the empty set as a blank, and blanks allowed around each date.
CommaLists ==
    { <<" ">>, <<"d1">>, <<"d2">>, <<"d1", ",", "d2">>,
      <<"d1", ",", " ", "d2">>, <<" ", "d2", " ">> }

\* str.upper() of a typed word.
Upper(w) == IF w = "a100" THEN "A100" ELSE w

\* The DataFrame that load_data() hands to the step being taken.
Loaded == cache'[1]

(* -------------------------------- claims ------------------------------- *)

\* C1: when two sessions have each been told that their check-in of a
\* different participant was saved, the remote table shows Status = Yes for
\* both participants.
C1_NoLostUpdate ==
    \A c \in Clients, d \in Clients :
        (/\ outcome[c] = "Recorded"
         /\ outcome[d] = "Recorded"
         /\ id_code[c] # id_code[d])
        => /\ remote[id_code[c]].st[action_col[c]] = "Yes"
           /\ remote[id_code[d]].st[action_col[d]] = "Yes"

\* C2: a Status that is Yes in the remote table is Yes in every later
\* remote table.
C2_StatusMonotonic ==
    [][\A i \in Ids, a \in Activities :
          remote[i].st[a] = "Yes" => remote'[i].st[a] = "Yes"]_vars

\* C3: when a day-gated activity is requested for a participant whose
\* Assigned Day lists dates and today is none of them, the handler reports
\* the not-assigned block, goes on to the dashboard without entering the
\* button branch, and the remote table stays as it is until the run ends.
C3_BlockedOffDay ==
    [][\A c \in Clients :
          /\ (/\ TabStep(c)
              /\ id_code[c] \in Ids
              /\ action_col[c] \in Gated
              /\ ListedDates(Loaded[id_code[c]].day) # {}
              /\ today \notin ListedDates(Loaded[id_code[c]].day))
             => /\ outcome'[c] = "invalid_day"
                /\ ret'[c] = 196
                /\ button'[c] = FALSE
                /\ remote' = remote
          /\ (outcome[c] = "invalid_day" /\ pc[c] # "idle" /\ pc'[c] # pc[c])
             => /\ pc'[c] = "idle"
                /\ remote' = remote]_vars

\* C3 witness: a Bus or Food request was refused for the day and the run
\* is over.
C3_Witness ==
    \E c \in Clients :
        /\ outcome[c] = "invalid_day"
        /\ pc[c] = "idle"
        /\ action_col[c] \in Gated
        /\ ListedDates(remote[id_code[c]].day) # {}
        /\ today \notin ListedDates(remote[id_code[c]].day)

\* C4 as stated: whenever the loaded table shows Status(P, A) = Yes, the
\* handler answers "already recorded", whatever the day.
C4_AlreadyRegardlessOfDay ==
    [][\A c \in Clients :
          (/\ TabStep(c)
           /\ id_code[c] \in Ids
           /\ Loaded[id_code[c]].st[action_col[c]] = "Yes")
          => outcome'[c] = "already"]_vars

\* C4 as amended: whenever the loaded table shows Status(P, A) = Yes, the
\* handler blocks and saves nothing; the block is "already recorded" for
\* Override and for a day-gated activity when today is an entry of the
\* comma-separated Assigned Day, and "not assigned for today" for a
\* day-gated activity when Assigned Day lists dates and today is none.
C4_BlockedOnceRecorded ==
    [][\A c \in Clients :
          (/\ TabStep(c)
           /\ id_code[c] \in Ids
           /\ Loaded[id_code[c]].st[action_col[c]] = "Yes")
          => LET day == Loaded[id_code[c]].day
             IN  /\ outcome'[c] \in Blocked
                 /\ ret'[c] = 196
                 /\ button'[c] = FALSE
                 /\ remote' = remote
                 /\ action_col[c] = "Override" => outcome'[c] = "already"
                 /\ (action_col[c] \in Gated /\ <<today>> \in AssignedDays(day))
                    => outcome'[c] = "already"
                 /\ (/\ action_col[c] \in Gated
                     /\ ListedDates(day) # {}
                     /\ today \notin ListedDates(day))
                    => outcome'[c] = "invalid_day"]_vars

\* C4 witness: an activity already recorded was requested again on a day
\* the participant is not assigned to, and was blocked for the day.
C4_Witness ==
    \E c \in Clients :
        /\ outcome[c] = "invalid_day"
        /\ id_code[c] \in Ids
        /\ remote[id_code[c]].st[action_col[c]] = "Yes"
        /\ ListedDates(remote[id_code[c]].day) # {}
        /\ today \notin ListedDates(remote[id_code[c]].day)

\* C5: a session whose click came when the remote table already showed
\* Status(P, A) = Yes never gets a write of the table accepted.
C5_NoWriteOnceRecorded ==
    [][\A c \in Clients : WriteStep(c) => ~yesAtStart[c]]_vars

\* C6: the Overrides handler blocks exactly when the loaded table shows
\* Override = Yes, whatever Assigned Day holds and whatever day it is.
C6_OverrideOnlyBlockedWhenDone ==
    [][\A c \in Clients :
          (TabStep(c) /\ id_code[c] \in Ids /\ action_col[c] = "Override")
          => (outcome'[c] \in Blocked
              <=> Loaded[id_code[c]].st["Override"] = "Yes")]_vars

\* C6 witness: an Override was saved on a day that is none of the dates the
\* participant's Assigned Day lists.
C6_Witness ==
    \E c \in Clients :
        /\ outcome[c] = "Recorded"
        /\ action_col[c] = "Override"
        /\ ListedDates(remote[id_code[c]].day) # {}
        /\ today \notin ListedDates(remote[id_code[c]].day)

\* C7: no request for a participant whose stored Assigned Day cell is empty
\* is answered with the not-assigned block.
C7_EmptyIsUnrestricted ==
    \A c \in Clients :
        outcome[c] = "invalid_day" => remote[id_code[c]].day # <<>>

\* C8: an attempt of save_data that fails leaves the remote file as it is;
\* after the first and the second failure save_data tries again, after the
\* third it reports failure and the run goes on to the dashboard without a
\* success message; no fourth attempt is made.
C8_BoundedRetry ==
    [][\A c \in Clients :
          /\ attempt'[c] < retries
          /\ FailStep(c)
             => /\ remote' = remote
                /\ IF attempt[c] < retries - 1
                   THEN /\ attempt'[c] = attempt[c] + 1
                        /\ pc'[c] = "get_contents"
                        /\ outcome'[c] = "none"
                   ELSE /\ outcome'[c] = "PersistFailed"
                        /\ pc'[c] = "load"
                        /\ ret'[c] = 196]_vars

\* C8 witness: a save gave up after its third attempt.
C8_Witness ==
    \E c \in Clients :
        /\ outcome[c] = "PersistFailed"
        /\ attempt[c] = retries - 1
        /\ clicked[c]

\* C9: when a session that was told its check-in was saved reloads the
\* table for the dashboard, the table shows Status = Yes and the Timestamp
\* this session wrote.
C9_RecordedIsPersisted ==
    [][\A c \in Clients :
          (DashStep(c) /\ outcome[c] = "Recorded")
          => LET row == to_csv(Loaded)[id_code[c]]
             IN  /\ row.st[action_col[c]] = "Yes"
                 /\ row.ts[action_col[c]]
                      = csv_data[c][1][id_code[c]].ts[action_col[c]]]_vars

\* C10: the table a handler marks and passes to save_data is the remote
\* content at the time of that load_data() call.
C10_FreshBeforeMutate ==
    [][\A c \in Clients : MutateStep(c) => Loaded = read_csv(remote)]_vars

\* C11: once a session's save has succeeded and it has cleared the cache,
\* every load_data() call that returns before that session's own dashboard
\* load, in any session, returns a table showing the Status and the
\* Timestamp that save wrote.
C11_LoadAfterSaveSeesWrite ==
    [][\A c \in Clients, d \in Clients :
          (/\ pc[c] = "load" /\ ret[c] = 196 /\ outcome[c] = "Recorded"
           /\ pc[d] = "load"
           /\ (pc'[d] # "load" \/ ret'[d] # ret[d]))
          => LET row == to_csv(Loaded)[id_code[c]]
             IN  /\ row.st[action_col[c]] = "Yes"
                 /\ row.ts[action_col[c]]
                      = csv_data[c][1][id_code[c]].ts[action_col[c]]]_vars

\* C12: an entered ID that equals a stored ID Code once its surrounding
\* blanks are removed and its letters are folded to one case finds that
\* record: the handler does not answer "Participant not found".
C12_IdNormalized ==
    [][\A c \in Clients :
          (/\ TabStep(c)
           /\ id_code[c] # ""
           /\ Upper(id_code[c]) \in DOMAIN Loaded)
          => outcome'[c] # "NotFound"]_vars

\* C13: when the entered ID is no ID Code of the loaded table, the handler
\* reports "not found", renders no button and goes on to the dashboard; the
\* run ends without entering save_data and the remote table stays as it
\* is, whatever the tab.
C13_NotFound ==
    [][\A c \in Clients :
          /\ (TabStep(c) /\ id_code[c] # "" /\ id_code[c] \notin DOMAIN Loaded)
             => /\ outcome'[c] = "NotFound"
                /\ ret'[c] = 196
                /\ button'[c] = FALSE
                /\ remote' = remote
          /\ (outcome[c] = "NotFound" /\ pc[c] # "idle" /\ pc'[c] # pc[c])
             => /\ pc'[c] = "idle"
                /\ remote' = remote]_vars

\* C13 witness: an ID absent from the table was entered and the run that
\* answered "not found" is over.
C13_Witness ==
    \E c \in Clients :
        /\ outcome[c] = "NotFound"
        /\ pc[c] = "idle"
        /\ id_code[c] \notin DOMAIN remote

\* C14: for a participant whose Assigned Day lists several dates, separated
\* by commas or by blanks, a day-gated request is answered "not assigned
\* for today" exactly when today is none of the listed dates.
C14_SeveralDates ==
    [][\A c \in Clients :
          (/\ TabStep(c)
           /\ id_code[c] \in DOMAIN Loaded
           /\ action_col[c] \in Gated
           /\ Cardinality(ListedDates(Loaded[id_code[c]].day)) >= 2)
          => (outcome'[c] = "invalid_day"
              <=> today \notin ListedDates(Loaded[id_code[c]].day))]_vars

C16_TokenFetchedPerAttempt ==
    [][\A c \in Clients :
          /\ (pc'[c] = "update_file" /\ pc[c] # "update_file")
             => /\ pc[c] = "get_contents"
                /\ sha'[c] = <<BlobSha(remote)>>
                /\ attempt'[c] = attempt[c]
          /\ (pc[c] = "update_file" /\ pc'[c] = "update_file")
             => /\ sha'[c] = sha[c]
                /\ attempt'[c] = attempt[c]
          /\ WriteStep(c) => sha[c] = <<BlobSha(remote)>>
          /\ (pc[c] = "update_file" /\ attempt'[c] # attempt[c])
             => /\ pc'[c] = "get_contents"
                /\ attempt'[c] = attempt[c] + 1]_vars

\* C16 witness: a write of a second or later attempt was accepted.
C16_Witness ==
    \E c \in Clients : pc[c] = "clear" /\ attempt[c] >= 1

\* C17: the remote table always holds exactly the provisioned ID Codes.
C17_NoRowCreatedOrDeleted ==
    DOMAIN remote = DOMAIN Provisioned

\* C17 witness: one check-in was recorded and changed the remote table, and
\* another request was answered as blocked, not found or failed.
C17_Witness ==
    /\ remote # Provisioned
    /\ \E c \in Clients : outcome[c] = "Recorded" /\ pc[c] = "idle"
    /\ \E d \in Clients :
           outcome[d] \in Blocked \cup {"NotFound", "PersistFailed"}

\* C18: no two clients are both told that the same check-in of the same
\* participant was recorded.
C18_OneRecordedPerCheckIn ==
    \A c \in Clients, d \in Clients :
        (/\ c # d
         /\ outcome[c] = "Recorded"
         /\ outcome[d] = "Recorded"
         /\ id_code[c] = id_code[d])
        => action_col[c] # action_col[d]

\* C19: in the remote table an activity of a participant has a Timestamp
\* exactly when its Status is Yes.
C19_TimestampIffYes ==
    \A i \in DOMAIN remote : \A a \in Activities :
        remote[i].ts[a] # <<>> <=> remote[i].st[a] = "Yes"

\* C19 witness: the remote table holds a Status of Yes with its Timestamp
\* beside a Status of No without one, for the same participant.
C19_Witness ==
    \E i \in DOMAIN remote : \E a \in Activities, b \in Activities :
        /\ remote[i].st[a] = "Yes" /\ remote[i].ts[a] # <<>>
        /\ remote[i].st[b] = "No" /\ remote[i].ts[b] = <<>>

====
